---- MODULE Spec2Model ----
(***************************************************************************)
(* The GFD2024_Numerics notebooks:                                         *)
(*   - oilspill_diffusion_ftcs      (src/unnamed/part_001), SpecFTCS       *)
(*   - oilspill_diffusion_implicit  (src/oilspill_diffusion_implicit.ipynb)*)
(*                                                          SpecImplicit   *)
(*   - tsunami_wave                 (src/tsunami_wave.ipynb), SpecWave     *)
(*   - ballistic                    (src/unnamed/part_000), SpecBallistic  *)
(*   - sine derivative              (src/README.md), SpecDerivative        *)
(*                                                                         *)
(* Each notebook is a straight-line script.  For a notebook with a time    *)
(* loop, Init is the state reached just before the loop and one action is  *)
(* one whole loop iteration.  For the derivative notebook, Init is the     *)
(* state after the samples are taken and one action is one block of its    *)
(* cells.  Spec runs any one of the notebooks.                             *)
(*                                                                         *)
(* Numbers.  The notebooks compute in float64.  Here a number is an exact  *)
(* rational <<n, d>> in lowest terms with d > 0, or NaN == <<0, 0>>, so    *)
(* that every statement is about the arithmetic the code writes down, not  *)
(* about float64 rounding.  Arrays are functions on 0 .. len-1 (Python     *)
(* indices).                                                               *)
(***************************************************************************)
EXTENDS Integers, FiniteSets, Sequences, TLC

VARIABLES
    notebook,         \* which notebook is running
    tt,               \* index of the next loop iteration (iterations done)
    uu_0,             \* initial field
    uu_cur,           \* current field
    uu_old,           \* copy of the field taken at the top of an iteration
    uu_old_2,         \* wave: copy of uu_old taken at the top of an iteration
    to_plot,          \* snapshot buffer, one row per entry of ttplot
    alpha,            \* diffusion: bigd*deltat_sec/deltax**2
    uu_left_dirich,   \* diffusion: prescribed left boundary value
    uu_right_dirich,  \* diffusion: prescribed right boundary value
    hmat,             \* implicit: coefficient matrix
    invhmat,          \* implicit: its inverse
    bathy_a,          \* wave: abs(bathy)
    grv,              \* wave, ballistic: gravity
    deltat_sec,       \* wave: time step
    deltax,           \* wave, derivative: grid step
    hist,             \* ghost: the field at the end of every step so far
                      \*        (hist[1] is the initial field)
    kk,               \* ballistic: index of the next loop iteration
    uu0,              \* ballistic: horizontal velocity
    ww0,              \* ballistic: initial vertical velocity
    deltat,           \* ballistic: time step
    xxfull,           \* ballistic: horizontal positions
    nmr_zzfull,       \* ballistic: numerical heights
    atic_zzfull,      \* ballistic: analytic heights
    nmr_unclamped,    \* ghost: nmr_zzfull[k] as assigned before np.maximum
    atic_unclamped,   \* ghost: atic_zzfull[k] as assigned before np.maximum
    pc,               \* derivative: the block of cells to run next
    uux,              \* derivative: samples of the function
    true_dudx,        \* derivative: samples of its derivative
    fd_dudx,          \* derivative: forward-difference estimate
    bd_dudx,          \* derivative: backward-difference estimate
    cd_dudx,          \* derivative: centered-difference estimate
    resids_fd,        \* derivative: rounded residuals of fd_dudx
    resids_bd,        \* derivative: rounded residuals of bd_dudx
    resids_cd         \* derivative: rounded residuals of cd_dudx

\* variables of the diffusion and wave notebooks
field_vars == <<tt, uu_0, uu_cur, uu_old, uu_old_2, to_plot, alpha,
                uu_left_dirich, uu_right_dirich, hmat, invhmat, bathy_a,
                deltat_sec, hist>>

\* variables of the ballistic notebook
ballistic_vars == <<kk, uu0, ww0, deltat, xxfull, nmr_zzfull, atic_zzfull,
                    nmr_unclamped, atic_unclamped>>

\* variables of the derivative notebook
derivative_vars == <<pc, uux, true_dudx, fd_dudx, bd_dudx, cd_dudx,
                     resids_fd, resids_bd, resids_cd>>

vars == <<notebook, grv, deltax, field_vars, ballistic_vars, derivative_vars>>

(***************************************************************************)
(* Bounds of the model.                                                    *)
(***************************************************************************)
\* number of grid points of the diffusion notebooks (they have 100)
xnum == 4
\* number of grid points of the wave notebook (it has 4001)
xnum_wave == 6
\* number of loop iterations (the notebooks have 3650 and 18000)
nsteps == 3

\* number of entries of the ballistic arrays, int(tmend/deltat) (the
\* notebook has 100); its loop runs over range(nsteps-1)
nsteps_ballistic == 5

\* (variant) a loop over range(n-1)
InRangeShort(t, n) == t < n - 1

\* "for t in range(n)" has an iteration t left to run
InRange(t, n) == t < n

(***************************************************************************)
(* Exact rational arithmetic with NaN.                                     *)
(***************************************************************************)
NaN == <<0, 0>>

IsNaN(x) == x[2] = 0

Abs(n) == IF n < 0 THEN -n ELSE n

RECURSIVE GCD(_, _)
GCD(a, b) == IF b = 0 THEN a ELSE GCD(b, a % b)

\* the rational n/d in lowest terms (n/0 is NaN)
Q(n, d) ==
    IF d = 0 THEN NaN
    ELSE LET g == GCD(Abs(n), Abs(d))
             s == IF d < 0 THEN -1 ELSE 1
         IN  <<(s * n) \div g, (s * d) \div g>>

Zero == Q(0, 1)
One == Q(1, 1)
Two == Q(2, 1)
Half == Q(1, 2)

QAdd(x, y) ==
    IF IsNaN(x) \/ IsNaN(y) THEN NaN
    ELSE LET g == GCD(x[2], y[2])
             lx == y[2] \div g
             ly == x[2] \div g
         IN  Q(x[1] * lx + y[1] * ly, x[2] * lx)

QNeg(x) == <<-x[1], x[2]>>

QSub(x, y) == QAdd(x, QNeg(y))

QMul(x, y) ==
    IF IsNaN(x) \/ IsNaN(y) THEN NaN
    ELSE LET g1 == GCD(Abs(x[1]), y[2])
             g2 == GCD(Abs(y[1]), x[2])
         IN  Q((x[1] \div g1) * (y[1] \div g2), (x[2] \div g2) * (y[2] \div g1))

\* x / y; a zero divisor gives NaN (numpy: inf or nan, never a finite number)
QDiv(x, y) ==
    IF IsNaN(x) \/ IsNaN(y) \/ y[1] = 0 THEN NaN
    ELSE QMul(x, Q(y[2], y[1]))

\* x <= y; false when either is NaN, as in IEEE arithmetic
QLe(x, y) ==
    /\ ~IsNaN(x)
    /\ ~IsNaN(y)
    /\ LET g == GCD(x[2], y[2])
       IN  x[1] * (y[2] \div g) <= y[1] * (x[2] \div g)

QLt(x, y) == QLe(x, y) /\ x # y

QAbs(x) == <<Abs(x[1]), x[2]>>

QMax(x, y) == IF QLe(x, y) THEN y ELSE x

\* int(x) for x >= 0: truncation
QInt(x) == x[1] \div x[2]

(***************************************************************************)
(* numpy arrays: functions on 0 .. len-1.                                  *)
(***************************************************************************)
VLen(u) == Cardinality(DOMAIN u)

\* c*np.ones(n)
Ones(c, n) == [i \in 0 .. n - 1 |-> c]

\* the slice u[a:b] for 0 <= a <= b <= len(u)
Slice(u, a, b) == [i \in 0 .. b - a - 1 |-> u[a + i]]

\* u[a:b] = v, every other entry kept
SetSlice(u, a, b, v) ==
    [i \in DOMAIN u |-> IF a <= i /\ i < b THEN v[i - a] ELSE u[i]]

\* elementwise u + v, u - v, u * v and the scalar multiple c*u
VAdd(u, v) == [i \in DOMAIN u |-> QAdd(u[i], v[i])]
VSub(u, v) == [i \in DOMAIN u |-> QSub(u[i], v[i])]
VMul(u, v) == [i \in DOMAIN u |-> QMul(u[i], v[i])]
VScale(c, u) == [i \in DOMAIN u |-> QMul(c, u[i])]

\* the largest entry of u[0 .. k]
RECURSIVE VMaxTo(_, _)
VMaxTo(u, k) == IF k = 0 THEN u[0] ELSE QMax(VMaxTo(u, k - 1), u[k])

VMax(u) == VMaxTo(u, VLen(u) - 1)

VMaxAbs(u) == VMax([i \in DOMAIN u |-> QAbs(u[i])])

(***************************************************************************)
(* Snapshot schedule:                                                      *)
(*   ttplot = np.linspace(0.001*nsteps, nsteps-1, num).astype(int).tolist()*)
(***************************************************************************)
\* the 0.001 of "0.001*nsteps", as 1/PlotStartDen
PlotStartDen == 1000
\* number of snapshots in the two diffusion notebooks (they have 7, far
\* fewer than steps: some steps take no snapshot)
NumPlotDiffusion == 2
\* number of snapshots in the wave notebook (it has 8)
NumPlotWave == 2

\* (variant) np.linspace(start,stop,num,endpoint=False)
LinspaceIntOpenEnd(start, stop, num) ==
    LET step == QDiv(QSub(stop, start), Q(num, 1))
    IN  [k \in 0 .. num - 1 |-> QInt(QAdd(start, QMul(Q(k, 1), step)))]

LinspaceInt(start, stop, num) ==
    LET step == QDiv(QSub(stop, start), Q(num - 1, 1))
    IN  [k \in 0 .. num - 1 |->
            IF k = num - 1 THEN QInt(stop)
            ELSE QInt(QAdd(start, QMul(Q(k, 1), step)))]

\* ttplot for ns steps and num snapshots
TtplotOf(ns, num) ==
    LinspaceInt(Q(ns, PlotStartDen), Q(ns - 1, 1), num)

ttplot(num) == TtplotOf(nsteps, num)

\* The values the notebooks fix.
\* diffusion: tmend_d = 365, deltat_d = 0.1, nsteps = int(tmend_d/deltat_d)
tmend_d == 365
deltat_d == Q(1, 10)
NstepsDiffusion == QInt(QDiv(Q(tmend_d, 1), deltat_d))
\* the 7 of np.linspace(0.001*nsteps,nsteps-1,7)
SnapshotsDiffusion == 7
\* wave: tmend_h = 5, secperh = 3600, tmend_sec = tmend_h*secperh,
\* deltat_sec = 1, nsteps = int(tmend_sec/deltat_sec)
tmend_h == 5
secperh == 3600
NstepsWave == QInt(QDiv(Q(tmend_h * secperh, 1), One))
\* the 8 of np.linspace(0.001*nsteps,nsteps-1,8)
SnapshotsWave == 8

\* tt in ttplot
InPlot(t, num) == \E k \in 0 .. num - 1 : ttplot(num)[k] = t

\* ttplot.index(tt): the first position holding tt
PlotIndex(t, num) ==
    CHOOSE k \in 0 .. num - 1 :
        /\ ttplot(num)[k] = t
        /\ \A m \in 0 .. k - 1 : ttplot(num)[m] # t

\* (variant) a row written at every step, the rows taken in turn
SavePlotEveryStep(buf, t, field, num) == [buf EXCEPT ![t % num] = field]

\* if(tt in ttplot): to_plot[ttplot.index(tt),:] = copy.deepcopy(uu_cur)
SavePlot(buf, t, field, num) ==
    IF InPlot(t, num) THEN [buf EXCEPT ![PlotIndex(t, num)] = field] ELSE buf

\* np.zeros((len(ttplot),xnum))
ZeroPlot(num, n) == [k \in 0 .. num - 1 |-> Ones(Zero, n)]

(***************************************************************************)
(* Parameters and initial profiles.  The notebooks fix one value for each; *)
(* the model draws each from a small set.                                  *)
(***************************************************************************)
\* bigd, the diffusion coefficient
BigdVals == {Zero, One, Two}
\* deltax, the grid step
DeltaxVals == {One, Two}
\* deltat_sec, the time step
DeltatVals == {One}
\* uu_base, the baseline concentration
BaseVals == {Zero, Q(1, 10)}
\* uu_spill, the concentration at the spill
SpillVals == {One, Two}

\* Values of np.exp(-(1/2)*d**2/w**2): 1 at d = 0, and never increasing
\* with the distance d.  A table gives the value at distance rank k.
GaussVals == {Zero, Half, One}

GaussTables(n) ==
    {t \in [0 .. n - 1 -> GaussVals] :
        /\ t[0] = One
        /\ \A k \in 1 .. n - 1 : QLe(t[k], t[k - 1])}

\* alpha = bigd*deltat_sec/deltax**2
Alpha(bigd, dt, dx) == QDiv(QMul(bigd, dt), QMul(dx, dx))

\* uu_0 = uu_base*np.ones(xnum)
\* uu_0 = uu_0 + uu_spill*np.exp(-(1/2)*xgrid**2/spill_scale**2)
\* with xgrid = np.arange(0,1e5,deltax), so that xgrid[j] is at rank j
SpillField(uu_base, uu_spill, gauss) ==
    VAdd(Ones(uu_base, xnum), VScale(uu_spill, gauss))

\* what a variable holds that the notebook has not assigned (yet)
Unset == <<>>

\* a notebook is run on its own: the names of the other notebooks are not
\* assigned
NoBallistic ==
    /\ kk = 0
    /\ uu0 = Unset
    /\ ww0 = Unset
    /\ deltat = Unset
    /\ xxfull = Unset
    /\ nmr_zzfull = Unset
    /\ atic_zzfull = Unset
    /\ nmr_unclamped = Unset
    /\ atic_unclamped = Unset

NoDerivative ==
    /\ pc = "none"
    /\ uux = Unset
    /\ true_dudx = Unset
    /\ fd_dudx = Unset
    /\ bd_dudx = Unset
    /\ cd_dudx = Unset
    /\ resids_fd = Unset
    /\ resids_bd = Unset
    /\ resids_cd = Unset

NoFields ==
    /\ tt = 0
    /\ uu_0 = Unset
    /\ uu_cur = Unset
    /\ uu_old = Unset
    /\ uu_old_2 = Unset
    /\ to_plot = Unset
    /\ alpha = Unset
    /\ uu_left_dirich = Unset
    /\ uu_right_dirich = Unset
    /\ hmat = Unset
    /\ invhmat = Unset
    /\ bathy_a = Unset
    /\ deltat_sec = Unset
    /\ hist = <<>>

(***************************************************************************)
(* oilspill_diffusion_ftcs: the FTCS loop.                                 *)
(***************************************************************************)
InitFTCS ==
    \E uu_base \in BaseVals, uu_spill \in SpillVals,
       gauss \in GaussTables(xnum),
       bigd \in BigdVals, dt \in DeltatVals, dx \in DeltaxVals :
        /\ notebook = "ftcs"
        /\ tt = 0
        /\ deltax = dx
        /\ deltat_sec = dt
        /\ uu_left_dirich = uu_spill
        /\ uu_right_dirich = uu_base
        /\ uu_0 = SpillField(uu_base, uu_spill, gauss)
        /\ uu_cur = SpillField(uu_base, uu_spill, gauss)
        /\ alpha = Alpha(bigd, dt, dx)
        /\ to_plot = ZeroPlot(NumPlotDiffusion, xnum)
        /\ hist = <<SpillField(uu_base, uu_spill, gauss)>>
        /\ uu_old = Unset
        /\ uu_old_2 = Unset
        /\ hmat = Unset
        /\ invhmat = Unset
        /\ bathy_a = Unset
        /\ grv = Zero
        /\ NoBallistic
        /\ NoDerivative

\* (variant) the central term read from uu_old[0:-2] instead of uu_old[1:-1]
FtcsInteriorShifted(old, a) ==
    LET n == VLen(old)
    IN  VAdd(VAdd(VScale(a, Slice(old, 0, n - 2)),
                  VScale(QSub(One, QMul(Two, a)), Slice(old, 0, n - 2))),
             VScale(a, Slice(old, 2, n)))

\* (variant) the central weight written 1-alpha instead of 1-2*alpha
FtcsInteriorCoefSlip(old, a) ==
    LET n == VLen(old)
    IN  VAdd(VAdd(VScale(a, Slice(old, 0, n - 2)),
                  VScale(QSub(One, a), Slice(old, 1, n - 1))),
             VScale(a, Slice(old, 2, n)))

\* (variant) an in-place sweep: point j reads the new value of point j-1
RECURSIVE SweepTo(_, _, _)
SweepTo(old, a, j) ==
    LET left == IF j = 1 THEN old[0] ELSE SweepTo(old, a, j - 1)
    IN  QAdd(QAdd(QMul(a, left), QMul(QSub(One, QMul(Two, a)), old[j])),
             QMul(a, old[j + 1]))

FtcsInteriorInPlace(old, a) ==
    [i \in 0 .. VLen(old) - 3 |-> SweepTo(old, a, i + 1)]

\* alpha*uu_old[0:-2] + (1-2*alpha)*uu_old[1:-1] + alpha*uu_old[2:]
FtcsInterior(old, a) ==
    LET n == VLen(old)
    IN  VAdd(VAdd(VScale(a, Slice(old, 0, n - 2)),
                  VScale(QSub(One, QMul(Two, a)), Slice(old, 1, n - 1))),
             VScale(a, Slice(old, 2, n)))

\* uu_cur[1:-1] = <interior values>
AssignInterior(cur, vals) == SetSlice(cur, 1, VLen(cur) - 1, vals)

\* (variant) the left boundary value is not reapplied
FtcsBoundaryRightOnly(cur, left, right) ==
    [cur EXCEPT ![VLen(cur) - 1] = right]

\* uu_cur[0] = copy.deepcopy(uu_left_dirich)
\* uu_cur[-1] = copy.deepcopy(uu_right_dirich)
FtcsBoundary(cur, left, right) ==
    [[cur EXCEPT ![0] = left] EXCEPT ![VLen(cur) - 1] = right]

\* one iteration of the loop body, from the field at its top
FtcsUpdate(cur, a, left, right) ==
    LET old == cur
    IN  FtcsBoundary(AssignInterior(cur, FtcsInterior(old, a)), left, right)

\* the FTCS loop has an iteration to run
FtcsLoopRuns == notebook = "ftcs" /\ InRange(tt, nsteps)

FtcsStep ==
    /\ FtcsLoopRuns
    /\ uu_old' = uu_cur
    /\ uu_cur' = FtcsUpdate(uu_cur, alpha, uu_left_dirich, uu_right_dirich)
    /\ to_plot' = SavePlot(to_plot, tt, uu_cur', NumPlotDiffusion)
    /\ hist' = Append(hist, uu_cur')
    /\ tt' = tt + 1
    /\ UNCHANGED <<notebook, uu_0, uu_old_2, alpha, uu_left_dirich,
                   uu_right_dirich, hmat, invhmat, bathy_a, grv, deltat_sec,
                   deltax>>
    /\ UNCHANGED <<ballistic_vars, derivative_vars>>

NextFTCS == FtcsStep

SpecFTCS == InitFTCS /\ [][NextFTCS]_vars

(***************************************************************************)
(* Properties of the FTCS loop.                                            *)
(***************************************************************************)
\* the field at the end of the previous step (the initial field at first)
PrevField == hist[Len(hist) - 1]

Interior == 1 .. xnum - 2

\* the sum of u[1 .. k]
RECURSIVE VSumTo(_, _)
VSumTo(u, k) == IF k = 0 THEN Zero ELSE QAdd(VSumTo(u, k - 1), u[k])

InteriorSum(u) == VSumTo(u, xnum - 2)

FtcsStable ==
    /\ QLe(Zero, alpha)
    /\ QLe(alpha, Half)
    /\ \A j \in 0 .. xnum - 1 : QLe(Zero, uu_0[j])
    /\ QLe(Zero, uu_left_dirich)
    /\ QLe(Zero, uu_right_dirich)

\* M: the maximum over the initial field and the two Dirichlet values
FtcsBoundM == QMax(VMax(uu_0), QMax(uu_left_dirich, uu_right_dirich))

\* C3: FTCS with 0 <= alpha <= 1/2, a non-negative initial field and
\* non-negative Dirichlet values: after every step every field value lies in
\* [0, M], M the maximum over the initial field and the Dirichlet values, and
\* the interior sum is at most (N-2)*M.
C3_FtcsMaxPrinciple ==
    FtcsStable =>
        /\ \A j \in 0 .. xnum - 1 :
            /\ QLe(Zero, uu_cur[j])
            /\ QLe(uu_cur[j], FtcsBoundM)
        /\ QLe(Zero, InteriorSum(uu_cur))
        /\ QLe(InteriorSum(uu_cur), QMul(Q(xnum - 2, 1), FtcsBoundM))

C3_Witness ==
    /\ FtcsStable
    /\ alpha = Half
    /\ tt = nsteps
    /\ \E j \in Interior : uu_cur[j] # uu_0[j] /\ QLt(Zero, uu_cur[j])

\* C5: every FTCS step sets each interior point j to
\* alpha*u_old[j-1] + (1-2*alpha)*u_old[j] + alpha*u_old[j+1], u_old being the
\* complete field at the end of the previous step; uu_old is that field, and
\* the interior assignment leaves indices 0 and N-1 as they were.
C5_FtcsStencil ==
    /\ tt >= 1 =>
        /\ uu_old = PrevField
        /\ \A j \in Interior :
            uu_cur[j] =
                QAdd(QAdd(QMul(alpha, PrevField[j - 1]),
                          QMul(QSub(One, QMul(Two, alpha)), PrevField[j])),
                     QMul(alpha, PrevField[j + 1]))
    /\ LET assigned == AssignInterior(uu_cur, FtcsInterior(uu_cur, alpha))
       IN  /\ assigned[0] = uu_cur[0]
           /\ assigned[xnum - 1] = uu_cur[xnum - 1]

C5_Witness ==
    /\ tt = nsteps
    /\ QLt(Zero, alpha)
    /\ \E j \in Interior : uu_cur[j] # PrevField[j]
    /\ \E j \in Interior : PrevField[j] # uu_0[j]

\* C8: after every FTCS step the first field value is uu_left_dirich and
\* the last is uu_right_dirich, whatever the initial boundary values were.
C8_FtcsDirichlet ==
    \A k \in 2 .. Len(hist) :
        /\ hist[k][0] = uu_left_dirich
        /\ hist[k][xnum - 1] = uu_right_dirich
        /\ k = Len(hist) => uu_cur = hist[k]

C8_Witness ==
    /\ tt = nsteps
    /\ uu_0[0] # uu_left_dirich
    /\ uu_0[xnum - 1] # uu_right_dirich
    /\ uu_cur[0] = uu_left_dirich
    /\ \E j \in Interior : uu_cur[j] # uu_0[j]

\* C10: with alpha = 0 an FTCS step leaves every interior value unchanged
\* and sets the two boundary values to the Dirichlet values; every further
\* step gives the same field as the first.
C10_FtcsZeroAlpha ==
    (alpha = Zero /\ tt >= 1) =>
        /\ \A j \in Interior : uu_cur[j] = uu_0[j]
        /\ uu_cur[0] = uu_left_dirich
        /\ uu_cur[xnum - 1] = uu_right_dirich
        /\ uu_cur = hist[2]

C10_Witness ==
    /\ alpha = Zero
    /\ tt = nsteps
    /\ uu_cur # uu_0
    /\ \E j \in Interior : uu_cur[j] # uu_cur[j + 1] /\ uu_cur[j] # uu_cur[0]

(***************************************************************************)
(* oilspill_diffusion_implicit: the H matrix, its inverse and the loop.    *)
(* A matrix is a function from row index to row (an array).                *)
(***************************************************************************)
\* (variant) updiag[0] = 0 left out: row 0 of H is not an identity row
UpDiagUnpinned(a, n) == Ones(QNeg(a), n - 1)

\* updiag = -alpha*np.ones(xnum-1); updiag[0] = 0
UpDiag(a, n) == [Ones(QNeg(a), n - 1) EXCEPT ![0] = Zero]

\* (variant) maindiag[-1] = 1 left out
MainDiagTailUnpinned(a, n) ==
    [Ones(QAdd(One, QMul(Two, a)), n) EXCEPT ![0] = One]

\* maindiag = (1+2*alpha)*np.ones(xnum); maindiag[0] = 1; maindiag[-1] = 1
MainDiag(a, n) ==
    [[Ones(QAdd(One, QMul(Two, a)), n) EXCEPT ![0] = One] EXCEPT ![n - 1] = One]

\* (variant) lowdiag[0] = 0 in place of lowdiag[-1] = 0
LowDiagHeadZeroed(a, n) == [Ones(QNeg(a), n - 1) EXCEPT ![0] = Zero]

\* lowdiag = -alpha*np.ones(xnum-1); lowdiag[-1] = 0
LowDiag(a, n) == [Ones(QNeg(a), n - 1) EXCEPT ![n - 2] = Zero]

\* diags([low,main,up],[-1,0,1]).toarray(): low[k] at (k+1,k), main[k] at
\* (k,k), up[k] at (k,k+1)
Diags(low, main, up) ==
    LET n == VLen(main)
    IN  [i \in 0 .. n - 1 |->
            [j \in 0 .. n - 1 |->
                IF j = i THEN main[i]
                ELSE IF j = i + 1 THEN up[i]
                ELSE IF j = i - 1 THEN low[j]
                ELSE Zero]]

HMat(a, n) == Diags(LowDiag(a, n), MainDiag(a, n), UpDiag(a, n))

Identity(n) ==
    [i \in 0 .. n - 1 |-> [j \in 0 .. n - 1 |-> IF i = j THEN One ELSE Zero]]

\* the sum of f[0 .. k]
RECURSIVE SumTo(_, _)
SumTo(f, k) == IF k < 0 THEN Zero ELSE QAdd(SumTo(f, k - 1), f[k])

\* M @ v for a matrix M and an array v
MatVec(M, v) ==
    [i \in DOMAIN M |->
        SumTo([j \in DOMAIN v |-> QMul(M[i][j], v[j])], VLen(v) - 1)]

\* v @ M
VecMat(M, v) ==
    [j \in DOMAIN v |->
        SumTo([i \in DOMAIN M |-> QMul(v[i], M[i][j])], VLen(v) - 1)]

\* A @ B
MatMul(A, B) ==
    [i \in DOMAIN A |->
        [j \in DOMAIN A |->
            SumTo([k \in DOMAIN A |-> QMul(A[i][k], B[k][j])], VLen(A) - 1)]]

\* np.linalg.inv: elimination with partial pivoting on [A | B], column k on.
\* The pivot is the first row at or below k with the largest |A[r][k]|; a
\* zero pivot is numpy's LinAlgError("Singular matrix").
PivotRow(A, k) ==
    CHOOSE r \in k .. VLen(A) - 1 :
        /\ \A q \in k .. VLen(A) - 1 : QLe(QAbs(A[q][k]), QAbs(A[r][k]))
        /\ \A q \in k .. r - 1 : QLt(QAbs(A[q][k]), QAbs(A[r][k]))

SwapRows(M, i, j) == [M EXCEPT ![i] = M[j], ![j] = M[i]]

\* row k divided by the pivot, then cleared from every other row
Eliminate(M, A, k) ==
    LET rowk == VScale(QDiv(One, A[k][k]), M[k])
    IN  [i \in DOMAIN M |->
            IF i = k THEN rowk ELSE VSub(M[i], VScale(A[i][k], rowk))]

RECURSIVE GaussJordan(_, _, _)
GaussJordan(A, B, k) ==
    IF k = VLen(A) THEN [ok |-> TRUE, inv |-> B]
    ELSE LET p == PivotRow(A, k)
             A1 == SwapRows(A, k, p)
             B1 == SwapRows(B, k, p)
         IN  IF A1[k][k] = Zero THEN [ok |-> FALSE, inv |-> Unset]
             ELSE GaussJordan(Eliminate(A1, A1, k), Eliminate(B1, A1, k), k + 1)

\* invhmat = np.linalg.inv(hmat)
MatInv(A) == GaussJordan(A, Identity(VLen(A)), 0).inv

\* np.linalg.inv raises LinAlgError: the notebook stops before the loop
Singular(A) == ~GaussJordan(A, Identity(VLen(A)), 0).ok

InitImplicit ==
    \E uu_base \in BaseVals, uu_spill \in SpillVals,
       gauss \in GaussTables(xnum),
       bigd \in BigdVals, dt \in DeltatVals, dx \in DeltaxVals :
        /\ notebook = "implicit"
        /\ tt = 0
        /\ deltax = dx
        /\ deltat_sec = dt
        /\ uu_left_dirich = uu_spill
        /\ uu_right_dirich = uu_base
        /\ uu_0 = SpillField(uu_base, uu_spill, gauss)
        /\ uu_cur = SpillField(uu_base, uu_spill, gauss)
        /\ alpha = Alpha(bigd, dt, dx)
        /\ hmat = HMat(Alpha(bigd, dt, dx), xnum)
        /\ invhmat = MatInv(HMat(Alpha(bigd, dt, dx), xnum))
        /\ to_plot = ZeroPlot(NumPlotDiffusion, xnum)
        /\ hist = <<SpillField(uu_base, uu_spill, gauss)>>
        /\ uu_old = Unset
        /\ uu_old_2 = Unset
        /\ bathy_a = Unset
        /\ grv = Zero
        /\ NoBallistic
        /\ NoDerivative

\* (variant) the product taken the other way round, uu_old @ invhmat
ImplicitSolveTransposed(invh, old) == VecMat(invh, old)

\* uu_old = uu_old.reshape((xnum,1)); (invhmat @ uu_old).flatten()
\* (a column of shape (xnum,1) and a flat array hold the same values in the
\* same order: both are one array here)
ImplicitSolve(invh, old) == MatVec(invh, old)

\* the implicit loop has an iteration to run; the loop is not reached when
\* np.linalg.inv has raised LinAlgError
ImplicitLoopRuns ==
    /\ notebook = "implicit"
    /\ InRange(tt, nsteps)
    /\ ~Singular(hmat)

ImplicitStep ==
    /\ ImplicitLoopRuns
    /\ uu_old' = uu_cur
    /\ uu_cur' = ImplicitSolve(invhmat, uu_cur)
    /\ to_plot' = SavePlot(to_plot, tt, uu_cur', NumPlotDiffusion)
    /\ hist' = Append(hist, uu_cur')
    /\ tt' = tt + 1
    /\ UNCHANGED <<notebook, uu_0, uu_old_2, alpha, uu_left_dirich,
                   uu_right_dirich, hmat, invhmat, bathy_a, grv, deltat_sec,
                   deltax>>
    /\ UNCHANGED <<ballistic_vars, derivative_vars>>

NextImplicit == ImplicitStep

SpecImplicit == InitImplicit /\ [][NextImplicit]_vars

(***************************************************************************)
(* Properties of the implicit loop.                                        *)
(***************************************************************************)
\* C1: after every step of the implicit loop the first field value is
\* uu_left_dirich and the last is uu_right_dirich.
C1_ImplicitDirichlet ==
    tt >= 1 =>
        /\ uu_cur[0] = uu_left_dirich
        /\ uu_cur[xnum - 1] = uu_right_dirich

\* C4: implicit update with any alpha >= 0: after every step the largest
\* absolute field value is no greater than it was before that step.
C4_ImplicitNoGrowth ==
    QLe(Zero, alpha) =>
        \A k \in 2 .. Len(hist) :
            /\ QLe(VMaxAbs(hist[k]), VMaxAbs(hist[k - 1]))
            /\ k = Len(hist) => uu_cur = hist[k]

C4_Witness ==
    /\ QLt(Half, alpha)
    /\ tt = nsteps
    /\ \E j \in Interior : uu_cur[j] # PrevField[j]
    /\ \E j \in Interior : QLt(uu_0[j], uu_cur[j])

\* C7: after every implicit step H * u_new = u_old, u_old the field before
\* the step and H the matrix built before the loop; H and its inverse are
\* the ones built before the loop at every step.
C7_ImplicitSolves ==
    /\ hmat = HMat(alpha, xnum)
    /\ MatMul(hmat, invhmat) = Identity(xnum)
    /\ tt >= 1 =>
        /\ uu_old = PrevField
        /\ MatVec(hmat, uu_cur) = PrevField

C7_Witness ==
    /\ tt = nsteps
    /\ QLt(Zero, alpha)
    /\ \E j \in Interior : uu_cur[j] # PrevField[j]
    /\ \E j \in Interior : PrevField[j] # uu_0[j]

\* C16: H is tridiagonal: in every interior row j, H[j][j-1] = -alpha,
\* H[j][j] = 1 + 2*alpha, H[j][j+1] = -alpha and zeros elsewhere; rows 0
\* and N-1 are identity rows.
C16_HTridiagonal ==
    \A j \in 0 .. xnum - 1 : \A m \in 0 .. xnum - 1 :
        hmat[j][m] =
            IF j \in Interior
            THEN IF m = j - 1 \/ m = j + 1 THEN QNeg(alpha)
                 ELSE IF m = j THEN QAdd(One, QMul(Two, alpha))
                 ELSE Zero
            ELSE IF m = j THEN One ELSE Zero

C16_Witness ==
    /\ tt = nsteps
    /\ alpha = Two
    /\ hmat[xnum - 2][xnum - 3] = QNeg(Two)
    /\ hmat[xnum - 1][xnum - 2] = Zero
    /\ hmat[0][1] = Zero

\* C20: no implicit step changes the two boundary values: after every step
\* the first and last field values are those of the initial field uu_0,
\* whatever alpha and the interior values are.
C20_ImplicitBoundaryKept ==
    \A k \in 1 .. Len(hist) :
        /\ hist[k][0] = uu_0[0]
        /\ hist[k][xnum - 1] = uu_0[xnum - 1]
        /\ k = Len(hist) => uu_cur = hist[k]

C20_Witness ==
    /\ tt = nsteps
    /\ QLt(Half, alpha)
    /\ uu_0[0] # uu_left_dirich
    /\ uu_0[xnum - 1] # uu_0[xnum - 2]
    /\ \E j \in Interior : uu_cur[j] # PrevField[j]

(***************************************************************************)
(* tsunami_wave: grid, bathymetry, initial bump and the wave loop.         *)
(***************************************************************************)
\* grv, gravity
GrvVals == {One}
\* the reference depth (4000 in "bathy = -4000*np.ones(xnum)")
DepthVals == {One, Two}
\* contslope_slope
SlopeVals == {Zero, One}
\* bump_h
BumpVals == {One, Two}
\* the (3/4) of "contslope_pos = (3/4)*np.max(xgrid)"; with 1/4 the slope
\* covers several points of a grid this small, as it does in the notebook
ContSlopeFracVals == {Q(1, 4), Q(3, 4)}

\* xgrid = np.arange(-4e6,4e6+1,deltax): xnum points, symmetric about 0
WaveGrid(dx) ==
    [j \in 0 .. xnum_wave - 1 |-> QMul(Q(2 * j - (xnum_wave - 1), 2), dx)]

\* contslope_pos = frac*np.max(xgrid)
\* bathy = -depth*np.ones(xnum); inds = xgrid>=contslope_pos
\* bathy[inds] = bathy[inds]+contslope_slope*(xgrid[inds]-contslope_pos)
\* bathy_a = abs(bathy)
Bathymetry(depth, slope, frac, xgrid) ==
    LET pos == QMul(frac, VMax(xgrid))
    IN  [j \in DOMAIN xgrid |->
            QAbs(IF QLe(pos, xgrid[j])
                 THEN QAdd(QNeg(depth), QMul(slope, QSub(xgrid[j], pos)))
                 ELSE QNeg(depth))]

\* uu_0 = bump_h*np.exp((-1/2)*((xgrid-bump_c)**2)/(bump_w**2)), bump_c = 0:
\* grid point j is at distance |2j-(xnum-1)|*deltax/2, rank |2j-(xnum-1)|
BumpField(bump_h, gauss) ==
    [j \in 0 .. xnum_wave - 1 |->
        QMul(bump_h, gauss[Abs(2 * j - (xnum_wave - 1))])]

InitWave ==
    \E bump_h \in BumpVals, gauss \in GaussTables(xnum_wave),
       depth \in DepthVals, slope \in SlopeVals, frac \in ContSlopeFracVals,
       g \in GrvVals, dt \in DeltatVals, dx \in DeltaxVals :
        /\ notebook = "wave"
        /\ tt = 0
        /\ deltax = dx
        /\ deltat_sec = dt
        /\ grv = g
        /\ bathy_a = Bathymetry(depth, slope, frac, WaveGrid(dx))
        /\ uu_0 = BumpField(bump_h, gauss)
        /\ uu_cur = BumpField(bump_h, gauss)
        /\ uu_old = Ones(NaN, xnum_wave)
        /\ uu_old_2 = Ones(NaN, xnum_wave)
        /\ to_plot = ZeroPlot(NumPlotWave, xnum_wave)
        /\ hist = <<BumpField(bump_h, gauss)>>
        /\ alpha = Zero
        /\ uu_left_dirich = Zero
        /\ uu_right_dirich = Zero
        /\ hmat = Unset
        /\ invhmat = Unset
        /\ NoBallistic
        /\ NoDerivative

\* (variant) the two copies taken in the other order
WaveRotateSwapped(old, cur) == [old_2 |-> cur, old |-> cur]

\* uu_old_2 = copy.deepcopy(uu_old); uu_old = copy.deepcopy(uu_cur)
WaveRotate(old, cur) == [old_2 |-> old, old |-> cur]

\* sp_term1 = uu_old[2:]-2*uu_old[1:-1]+uu_old[0:-2]
SpTerm1(old) ==
    LET n == VLen(old)
    IN  VAdd(VSub(Slice(old, 2, n), VScale(Two, Slice(old, 1, n - 1))),
             Slice(old, 0, n - 2))

\* sp_term2 = ((bathy_a[2:]-bathy_a[0:-2])*(uu_old[2:]-uu_old[0:-2]))
SpTerm2(ba, old) ==
    LET n == VLen(old)
    IN  VMul(VSub(Slice(ba, 2, n), Slice(ba, 0, n - 2)),
             VSub(Slice(old, 2, n), Slice(old, 0, n - 2)))

\* fac1 = ((np.sqrt(grv*bathy_a)*deltat_sec/deltax)**2)[1:-1]
\* (grv*bathy_a is never negative, so the square of its root is itself)
Fac1(g, ba, dt, dx) ==
    LET c == QDiv(dt, dx)
    IN  Slice(VScale(QMul(c, c), VScale(g, ba)), 1, VLen(ba) - 1)

\* fac2 = (np.sqrt(grv)*deltat_sec/(2*deltax))**2
Fac2(g, dt, dx) ==
    LET c == QDiv(dt, QMul(Two, dx))
    IN  QMul(g, QMul(c, c))

\* (variant) no branch for tt == 0: the formula of tt > 0, which reads
\* uu_old_2 while it still holds np.nan*np.ones(xnum)
WaveFirstInteriorNoBranch(old, ba, g, dt, dx) ==
    LET n == VLen(old)
    IN  VAdd(VAdd(VAdd(VScale(QNeg(One), Slice(Ones(NaN, n), 1, n - 1)),
                       VScale(Two, Slice(old, 1, n - 1))),
                  VMul(Fac1(g, ba, dt, dx), SpTerm1(old))),
             VScale(Fac2(g, dt, dx), SpTerm2(ba, old)))

\* tt == 0:
\* uu_old[1:-1] + (1/2)*fac1*sp_term1 + fac2*sp_term2
WaveFirstInterior(old, ba, g, dt, dx) ==
    LET n == VLen(old)
    IN  VAdd(VAdd(Slice(old, 1, n - 1),
                  VMul(VScale(Half, Fac1(g, ba, dt, dx)), SpTerm1(old))),
             VScale(Fac2(g, dt, dx), SpTerm2(ba, old)))

\* tt > 0:
\* -1*uu_old_2[1:-1] + 2*uu_old[1:-1] + fac1*sp_term1 + fac2*sp_term2
WaveInterior(old_2, old, ba, g, dt, dx) ==
    LET n == VLen(old)
    IN  VAdd(VAdd(VAdd(VScale(QNeg(One), Slice(old_2, 1, n - 1)),
                       VScale(Two, Slice(old, 1, n - 1))),
                  VMul(Fac1(g, ba, dt, dx), SpTerm1(old))),
             VScale(Fac2(g, dt, dx), SpTerm2(ba, old)))

\* uu_cur[0] = copy.deepcopy(uu_cur[2]); uu_cur[-1] = copy.deepcopy(uu_cur[-3])
WaveBoundary(cur) ==
    LET c1 == [cur EXCEPT ![0] = cur[2]]
    IN  [c1 EXCEPT ![VLen(cur) - 1] = c1[VLen(cur) - 3]]

\* (variant) the boundary rule applied before the interior assignment
WaveFinishBoundaryFirst(cur, vals) == AssignInterior(WaveBoundary(cur), vals)

\* uu_cur[1:-1] = <interior values>, then the boundary conditions
WaveFinish(cur, vals) == WaveBoundary(AssignInterior(cur, vals))

\* what every iteration does around the interior values it computed
WaveCommit(vals) ==
    /\ uu_old_2' = WaveRotate(uu_old, uu_cur).old_2
    /\ uu_old' = WaveRotate(uu_old, uu_cur).old
    /\ uu_cur' = WaveFinish(uu_cur, vals)
    /\ to_plot' = SavePlot(to_plot, tt, uu_cur', NumPlotWave)
    /\ hist' = Append(hist, uu_cur')
    /\ tt' = tt + 1
    /\ UNCHANGED <<notebook, uu_0, alpha, uu_left_dirich, uu_right_dirich,
                   hmat, invhmat, bathy_a, grv, deltat_sec, deltax>>
    /\ UNCHANGED <<ballistic_vars, derivative_vars>>

\* the wave loop has an iteration to run
WaveLoopRuns == notebook = "wave" /\ InRange(tt, nsteps)

\* the iteration tt == 0
WaveFirstStep ==
    /\ WaveLoopRuns
    /\ tt = 0
    /\ WaveCommit(WaveFirstInterior(WaveRotate(uu_old, uu_cur).old,
                                    bathy_a, grv, deltat_sec, deltax))

\* an iteration tt > 0
WaveLaterStep ==
    /\ WaveLoopRuns
    /\ tt > 0
    /\ WaveCommit(WaveInterior(WaveRotate(uu_old, uu_cur).old_2,
                               WaveRotate(uu_old, uu_cur).old,
                               bathy_a, grv, deltat_sec, deltax))

NextWave == WaveFirstStep \/ WaveLaterStep

SpecWave == InitWave /\ [][NextWave]_vars

(***************************************************************************)
(* ballistic: the height integrated forward in time, next to the analytic  *)
(* parabola.                                                               *)
(***************************************************************************)
\* xx0 = 0
xx0 == Zero
\* zz0 = 0
zz0 == Zero
\* uu0
Uu0Vals == {One, Two}
\* ww0
Ww0Vals == {Zero, One, Q(3, 1)}
\* grv
GrvBallisticVals == {One, Two}
\* deltat
DeltatBallisticVals == {Half, One}

\* zpos = -(gravity/2)*(1/uinit**2)*xpos**2+(winit/uinit)*xpos
analytic_ballistic(xpos, uinit, winit, gravity) ==
    QAdd(QMul(QMul(QNeg(QDiv(gravity, Two)),
                   QDiv(One, QMul(uinit, uinit))),
              QMul(xpos, xpos)),
         QMul(QDiv(winit, uinit), xpos))

\* a = np.zeros(nsteps); a[0] = first
ZerosFrom(first, n) == [Ones(Zero, n) EXCEPT ![0] = first]

InitBallistic ==
    \E u \in Uu0Vals, w \in Ww0Vals, g \in GrvBallisticVals,
       dt \in DeltatBallisticVals :
        /\ notebook = "ballistic"
        /\ kk = 0
        /\ uu0 = u
        /\ ww0 = w
        /\ grv = g
        /\ deltat = dt
        /\ xxfull = ZerosFrom(xx0, nsteps_ballistic)
        /\ nmr_zzfull = ZerosFrom(zz0, nsteps_ballistic)
        /\ atic_zzfull = ZerosFrom(zz0, nsteps_ballistic)
        /\ nmr_unclamped = ZerosFrom(zz0, nsteps_ballistic)
        /\ atic_unclamped = ZerosFrom(zz0, nsteps_ballistic)
        /\ deltax = Unset
        /\ NoFields
        /\ NoDerivative

\* uu0*(kk+1)*deltat
XxAt(u, k, dt) == QMul(QMul(u, Q(k + 1, 1)), dt)

\* (variant) the time of the velocity counted in steps:
\* nmr_zzfull[kk]+deltat*(ww0-grv*(kk+1))
NmrUpdateStepTime(z, w, g, k, dt) ==
    QAdd(z, QMul(dt, QSub(w, QMul(g, Q(k + 1, 1)))))

\* nmr_zzfull[kk]+deltat*(ww0-grv*(kk+1)*deltat)
NmrUpdate(z, w, g, k, dt) ==
    QAdd(z, QMul(dt, QSub(w, QMul(QMul(g, Q(k + 1, 1)), dt))))

\* (variant) np.abs(z) in place of np.maximum(z,0): the ball bounces
ClampBounce(z) == QAbs(z)

\* np.maximum(z,0)
Clamp(z) == QMax(z, Zero)

\* the ballistic loop has an iteration to run
BallisticLoopRuns ==
    notebook = "ballistic" /\ InRange(kk, nsteps_ballistic - 1)

BallisticStep ==
    /\ BallisticLoopRuns
    /\ LET x == XxAt(uu0, kk, deltat)
           zn == NmrUpdate(nmr_zzfull[kk], ww0, grv, kk, deltat)
           za == analytic_ballistic(x, uu0, ww0, grv)
       IN  /\ xxfull' = [xxfull EXCEPT ![kk + 1] = x]
           /\ nmr_unclamped' = [nmr_unclamped EXCEPT ![kk + 1] = zn]
           /\ atic_unclamped' = [atic_unclamped EXCEPT ![kk + 1] = za]
           /\ atic_zzfull' = [atic_zzfull EXCEPT ![kk + 1] = Clamp(za)]
           /\ nmr_zzfull' = [nmr_zzfull EXCEPT ![kk + 1] = Clamp(zn)]
    /\ kk' = kk + 1
    /\ UNCHANGED <<notebook, grv, deltax, uu0, ww0, deltat>>
    /\ UNCHANGED <<field_vars, derivative_vars>>

NextBallistic == BallisticStep

SpecBallistic == InitBallistic /\ [][NextBallistic]_vars

(***************************************************************************)
(* Properties of the ballistic loop.                                       *)
(***************************************************************************)
\* the time level k, t_k = k*deltat
TimeAt(k) == QMul(Q(k, 1), deltat)

\* the parabola in time, z(t) = ww0*t - grv*t**2/2
ParabolaAt(t) == QSub(QMul(ww0, t), QMul(QDiv(grv, Two), QMul(t, t)))

\* np.maximum changed neither trajectory at any index up to k
NotClampedTo(k) ==
    \A m \in 0 .. k :
        /\ nmr_zzfull[m] = nmr_unclamped[m]
        /\ atic_zzfull[m] = atic_unclamped[m]

\* C11: at every step index k at which neither trajectory has been clamped
\* to the ground, the numerical height differs from the parabola at the
\* time t_k = k*dt by at most g*dt*t_k/2 in absolute value (a bound that
\* goes to 0 with dt at a fixed time).
C11_BallisticErrorBound ==
    \A k \in 0 .. kk :
        NotClampedTo(k) =>
            /\ atic_zzfull[k] = ParabolaAt(TimeAt(k))
            /\ QLe(QAbs(QSub(nmr_zzfull[k], atic_zzfull[k])),
                   QDiv(QMul(QMul(grv, deltat), TimeAt(k)), Two))

C11_Witness ==
    /\ notebook = "ballistic"
    /\ kk = nsteps_ballistic - 1
    /\ ~NotClampedTo(kk)
    /\ \E k \in 1 .. kk :
           /\ NotClampedTo(k)
           /\ QLt(Zero, nmr_zzfull[k])
           /\ QLt(nmr_zzfull[k], atic_zzfull[k])

\* C15: each step is a forward-Euler step: before the clamp,
\* nmr_zzfull[k+1] = nmr_zzfull[k] + dt*w(t_k) with w(t_k) = ww0 - grv*k*dt
\* the velocity at the start of the step, for every k in 0 .. nsteps-2.
C15_ForwardEuler ==
    \A k \in 0 .. kk - 1 :
        nmr_unclamped[k + 1] =
            QAdd(nmr_zzfull[k],
                 QMul(deltat, QSub(ww0, QMul(QMul(grv, Q(k, 1)), deltat))))

\* C21: with grv > 0, once the numerical height has been clamped to 0 at
\* some step index k >= 1 it is 0 at every later step index run so far:
\* the landed state is absorbing.
C21_LandedAbsorbing ==
    QLt(Zero, grv) =>
        \A k \in 1 .. kk :
            nmr_zzfull[k] = Zero =>
                \A m \in k .. kk : nmr_zzfull[m] = Zero

C21_Witness ==
    /\ notebook = "ballistic"
    /\ kk = nsteps_ballistic - 1
    /\ QLt(Zero, grv)
    /\ \E k \in 2 .. kk - 1 :
           /\ \E j \in 1 .. k - 1 : QLt(Zero, nmr_zzfull[j])
           /\ QLt(nmr_unclamped[k], Zero)
           /\ nmr_zzfull[k] = Zero
           /\ QLt(nmr_unclamped[kk], nmr_unclamped[k])
           /\ nmr_zzfull[kk] = Zero

(***************************************************************************)
(* sine derivative: forward, backward and centered difference estimates of *)
(* the derivative of sampled values, and their residuals.                  *)
(***************************************************************************)
\* number of samples of a drawn sample array (the notebook has 32)
numx_drawn == 4
\* sample values and reference derivative values of a drawn array
SampleVals == {Zero, One, Q(3, 1)}
\* deltax of a drawn array
DeltaxDrawnVals == {One, Two}

\* np.sin and np.cos at the multiples k/TableDen of a radian, k = 0 ..
\* TableLast, in units of 1/TableScale (nearest integer)
TableDen == 10
TableScale == 1000000
\* the last multiple of 1/TableDen below xmax = 2*np.pi
TableLast == 62

SinTable ==
    <<0, 99833, 198669, 295520, 389418, 479426, 564642, 644218, 717356,
      783327, 841471, 891207, 932039, 963558, 985450, 997495, 999574,
      991665, 973848, 946300, 909297, 863209, 808496, 745705, 675463,
      598472, 515501, 427380, 334988, 239249, 141120, 41581, -58374,
      -157746, -255541, -350783, -442520, -529836, -611858, -687766,
      -756802, -818277, -871576, -916166, -951602, -977530, -993691,
      -999923, -996165, -982453, -958924, -925815, -883455, -832267,
      -772764, -705540, -631267, -550686, -464602, -373877, -279415,
      -182163, -83089>>

CosTable ==
    <<1000000, 995004, 980067, 955336, 921061, 877583, 825336, 764842,
      696707, 621610, 540302, 453596, 362358, 267499, 169967, 70737,
      -29200, -128844, -227202, -323290, -416147, -504846, -588501,
      -666276, -737394, -801144, -856889, -904072, -942222, -970958,
      -989992, -999135, -998295, -987480, -966798, -936457, -896758,
      -848100, -790968, -725932, -653644, -574824, -490261, -400799,
      -307333, -210796, -112153, -12389, 87499, 186512, 283662, 377978,
      468517, 554374, 634693, 708670, 775566, 834713, 885520, 927478,
      960170, 983268, 996542>>

\* deltax of the sine runs, in multiples of 1/TableDen (the notebook: 2)
SineStrideVals == 1 .. 5

\* gridx = np.arange(xmin,xmax,step=deltax) with xmin = 0, as multiples of
\* 1/TableDen; numx = len(gridx)
GridMultiples(s) == [i \in 0 .. TableLast \div s |-> i * s]

\* np.sin(rad), np.cos(rad) on a grid of multiples
sinefunc(grid) == [i \in DOMAIN grid |-> Q(SinTable[grid[i] + 1], TableScale)]

cosinefunc(grid) ==
    [i \in DOMAIN grid |-> Q(CosTable[grid[i] + 1], TableScale)]

\* the position a Python index i (negative: from the end) has in an array
\* of n entries
PyIndex(i, n) == IF i < 0 THEN n + i ELSE i

\* the notebook's run, with one of the drawn steps
InitDerivativeSine ==
    \E s \in SineStrideVals :
        /\ deltax = Q(s, TableDen)
        /\ uux = sinefunc(GridMultiples(s))
        /\ true_dudx = cosinefunc(GridMultiples(s))

\* the estimators as functions of any samples: drawn samples and step
InitDerivativeDrawn ==
    \E u \in [0 .. numx_drawn - 1 -> SampleVals], dx \in DeltaxDrawnVals,
       c \in SampleVals :
        /\ deltax = dx
        /\ uux = u
        /\ true_dudx = Ones(c, numx_drawn)

InitDerivative ==
    /\ notebook = "derivative"
    /\ pc = "fd"
    /\ InitDerivativeSine \/ InitDerivativeDrawn
    /\ fd_dudx = Unset
    /\ bd_dudx = Unset
    /\ cd_dudx = Unset
    /\ resids_fd = Unset
    /\ resids_bd = Unset
    /\ resids_cd = Unset
    /\ grv = Unset
    /\ NoFields
    /\ NoBallistic

\* (variant) fd_dudx[-1] is not assigned after the loop
ForwardDiffTailUnset(u, dx) ==
    [ii \in DOMAIN u |->
        IF ii < VLen(u) - 1 THEN QDiv(QSub(u[ii + 1], u[ii]), dx) ELSE Zero]

\* fd_dudx = np.zeros(numx)
\* for ii in range(numx-1): fd_dudx[ii] = (uux[ii+1]-uux[ii])/deltax
\* fd_dudx[-1] = (uux[-1]-uux[-2])/deltax
ForwardDiff(u, dx) ==
    LET n == VLen(u)
        loop == [ii \in 0 .. n - 1 |->
                    IF ii \in 0 .. n - 2
                    THEN QDiv(QSub(u[ii + 1], u[ii]), dx) ELSE Zero]
    IN  [loop EXCEPT ![PyIndex(-1, n)] =
            QDiv(QSub(u[PyIndex(-1, n)], u[PyIndex(-2, n)]), dx)]

\* bd_dudx = np.zeros(numx)
\* for ii in range(1,numx): bd_dudx[ii] = (uux[ii]-uux[ii-1])/deltax
\* bd_dudx[0] = (uux[1]-uux[0])/deltax
BackwardDiff(u, dx) ==
    LET n == VLen(u)
        loop == [ii \in 0 .. n - 1 |->
                    IF ii \in 1 .. n - 1
                    THEN QDiv(QSub(u[ii], u[ii - 1]), dx) ELSE Zero]
    IN  [loop EXCEPT ![0] = QDiv(QSub(u[1], u[0]), dx)]

\* (variant) the interior divided by deltax, not 2*deltax
CenteredDiffSingleStep(u, dx) ==
    LET n == VLen(u)
    IN  [ii \in 0 .. n - 1 |->
            IF ii = 0 THEN QDiv(QSub(u[1], u[0]), dx)
            ELSE IF ii = n - 1 THEN QDiv(QSub(u[n - 1], u[n - 2]), dx)
            ELSE QDiv(QSub(u[ii + 1], u[ii - 1]), dx)]

\* (variant) cd_dudx[-1] and cd_dudx[0] are not assigned after the loop
CenteredDiffEndsUnset(u, dx) ==
    LET n == VLen(u)
    IN  [ii \in 0 .. n - 1 |->
            IF ii \in 1 .. n - 2
            THEN QDiv(QSub(u[ii + 1], u[ii - 1]), QMul(Two, dx)) ELSE Zero]

\* cd_dudx = np.zeros(numx)
\* for ii in range(1,numx-1):
\*     cd_dudx[ii] = (uux[ii+1]-uux[ii-1])/(2*deltax)
\* cd_dudx[-1] = (uux[-1]-uux[-2])/deltax
\* cd_dudx[0]  = (uux[1]-uux[0])/deltax
CenteredDiff(u, dx) ==
    LET n == VLen(u)
        loop == [ii \in 0 .. n - 1 |->
                    IF ii \in 1 .. n - 2
                    THEN QDiv(QSub(u[ii + 1], u[ii - 1]), QMul(Two, dx))
                    ELSE Zero]
        tail == [loop EXCEPT ![PyIndex(-1, n)] =
                    QDiv(QSub(u[PyIndex(-1, n)], u[PyIndex(-2, n)]), dx)]
    IN  [tail EXCEPT ![0] = QDiv(QSub(u[1], u[0]), dx)]

\* the 3 of np.round(x,3), as 10**3
RoundScale == 1000

\* np.round(x,3): the nearest multiple of 1/1000, a tie to the even one
Round3(x) ==
    IF IsNaN(x) THEN NaN
    ELSE LET y == QMul(x, Q(RoundScale, 1))
             f == y[1] \div y[2]
             r == y[1] - f * y[2]
             k == IF 2 * r < y[2] THEN f
                  ELSE IF 2 * r > y[2] THEN f + 1
                  ELSE IF f % 2 = 0 THEN f ELSE f + 1
         IN  Q(k, RoundScale)

\* np.round(est-true_dudx,3)
Resids(est, true) == [i \in DOMAIN est |-> Round3(QSub(est[i], true[i]))]

\* the Forward block
DerivativeForward ==
    /\ notebook = "derivative"
    /\ pc = "fd"
    /\ fd_dudx' = ForwardDiff(uux, deltax)
    /\ pc' = "bd"
    /\ UNCHANGED <<notebook, grv, deltax, uux, true_dudx, bd_dudx, cd_dudx,
                   resids_fd, resids_bd, resids_cd>>
    /\ UNCHANGED <<field_vars, ballistic_vars>>

\* the Backward block
DerivativeBackward ==
    /\ notebook = "derivative"
    /\ pc = "bd"
    /\ bd_dudx' = BackwardDiff(uux, deltax)
    /\ pc' = "cd"
    /\ UNCHANGED <<notebook, grv, deltax, uux, true_dudx, fd_dudx, cd_dudx,
                   resids_fd, resids_bd, resids_cd>>
    /\ UNCHANGED <<field_vars, ballistic_vars>>

\* the Centered block
DerivativeCentered ==
    /\ notebook = "derivative"
    /\ pc = "cd"
    /\ cd_dudx' = CenteredDiff(uux, deltax)
    /\ pc' = "errors"
    /\ UNCHANGED <<notebook, grv, deltax, uux, true_dudx, fd_dudx, bd_dudx,
                   resids_fd, resids_bd, resids_cd>>
    /\ UNCHANGED <<field_vars, ballistic_vars>>

\* the Errors block
DerivativeErrors ==
    /\ notebook = "derivative"
    /\ pc = "errors"
    /\ resids_fd' = Resids(fd_dudx, true_dudx)
    /\ resids_bd' = Resids(bd_dudx, true_dudx)
    /\ resids_cd' = Resids(cd_dudx, true_dudx)
    /\ pc' = "done"
    /\ UNCHANGED <<notebook, grv, deltax, uux, true_dudx, fd_dudx, bd_dudx,
                   cd_dudx>>
    /\ UNCHANGED <<field_vars, ballistic_vars>>

NextDerivative ==
    \/ DerivativeForward
    \/ DerivativeBackward
    \/ DerivativeCentered
    \/ DerivativeErrors

SpecDerivative == InitDerivative /\ [][NextDerivative]_vars

(***************************************************************************)
(* Properties of the derivative estimators.                                *)
(***************************************************************************)
\* N, the number of samples
NumX == VLen(uux)

\* the samples are those of sin over [0, 2*pi) with the step deltax
SineRun ==
    \E s \in SineStrideVals :
        /\ deltax = Q(s, TableDen)
        /\ uux = sinefunc(GridMultiples(s))
        /\ true_dudx = cosinefunc(GridMultiples(s))

\* abs(r)[np.argmax(abs(r))]: the largest absolute value of an array
\* without NaN
LargestAbs(r) ==
    CHOOSE x \in {QAbs(r[i]) : i \in DOMAIN r} :
        \A i \in DOMAIN r : QLe(QAbs(r[i]), x)

\* the largest absolute error of an estimate against true_dudx
MaxAbsError(est) == LargestAbs(VSub(est, true_dudx))

\* C12: the centered estimator assigns every one of the N entries:
\* cd[i] = (u[i+1]-u[i-1])/(2*dx) at every interior index 1 <= i <= N-2,
\* cd[0] = (u[1]-u[0])/dx and cd[N-1] = (u[N-1]-u[N-2])/dx.
C12_CenteredEntries ==
    pc \in {"errors", "done"} =>
        /\ DOMAIN cd_dudx = 0 .. NumX - 1
        /\ \A i \in 1 .. NumX - 2 :
               cd_dudx[i] =
                   QDiv(QSub(uux[i + 1], uux[i - 1]), QMul(Two, deltax))
        /\ cd_dudx[0] = QDiv(QSub(uux[1], uux[0]), deltax)
        /\ cd_dudx[NumX - 1] =
               QDiv(QSub(uux[NumX - 1], uux[NumX - 2]), deltax)

C12_Witness ==
    /\ pc = "done"
    /\ ~SineRun
    /\ \E i \in 1 .. NumX - 2 : cd_dudx[i] # fd_dudx[i] /\ cd_dudx[i] # Zero
    /\ cd_dudx[0] # Zero
    /\ cd_dudx[NumX - 1] # Zero
    /\ cd_dudx[NumX - 1] # cd_dudx[0]

\* C13: the one-sided estimators assign every one of the N entries:
\* fd[i] = (u[i+1]-u[i])/dx for i in 0 .. N-2 and the backward formula
\* (u[N-1]-u[N-2])/dx at the rightmost point; bd[i] = (u[i]-u[i-1])/dx for
\* i in 1 .. N-1 and the forward formula (u[1]-u[0])/dx at the leftmost.
C13_OneSidedEntries ==
    pc \in {"cd", "errors", "done"} =>
        /\ DOMAIN fd_dudx = 0 .. NumX - 1
        /\ DOMAIN bd_dudx = 0 .. NumX - 1
        /\ \A i \in 0 .. NumX - 2 :
               fd_dudx[i] = QDiv(QSub(uux[i + 1], uux[i]), deltax)
        /\ fd_dudx[NumX - 1] =
               QDiv(QSub(uux[NumX - 1], uux[NumX - 2]), deltax)
        /\ \A i \in 1 .. NumX - 1 :
               bd_dudx[i] = QDiv(QSub(uux[i], uux[i - 1]), deltax)
        /\ bd_dudx[0] = QDiv(QSub(uux[1], uux[0]), deltax)

C13_Witness ==
    /\ pc = "done"
    /\ ~SineRun
    /\ fd_dudx[NumX - 1] # Zero
    /\ bd_dudx[0] # Zero
    /\ \E i \in 1 .. NumX - 2 : fd_dudx[i] # bd_dudx[i]
    /\ fd_dudx[NumX - 1] = bd_dudx[NumX - 1]
    /\ fd_dudx[0] = bd_dudx[0]

\* C14: on samples of sin over a full period [0, 2*pi) with a small step,
\* the largest absolute error against cos of the centered estimate, over
\* all grid points with the boundary points, is smaller than that of the
\* forward estimate and smaller than that of the backward estimate; so
\* are the largest absolute rounded residuals the notebook prints.
C14_CenteredMoreAccurate ==
    (pc = "done" /\ SineRun) =>
        /\ QLt(MaxAbsError(cd_dudx), MaxAbsError(fd_dudx))
        /\ QLt(MaxAbsError(cd_dudx), MaxAbsError(bd_dudx))
        /\ QLt(LargestAbs(resids_cd), LargestAbs(resids_fd))
        /\ QLt(LargestAbs(resids_cd), LargestAbs(resids_bd))

C14_Witness ==
    /\ pc = "done"
    /\ SineRun
    /\ deltax = Q(1, 5)
    /\ NumX = 32
    /\ LargestAbs(resids_cd) = Q(15, 1000)
    /\ LargestAbs(resids_fd) = Q(100, 1000)
    /\ LargestAbs(resids_bd) = Q(100, 1000)
    /\ MaxAbsError(cd_dudx) =
           QAbs(QSub(cd_dudx[NumX - 1], true_dudx[NumX - 1]))

(***************************************************************************)
(* All notebooks: each run is one notebook, from its cells before the loop *)
(* to the end of its loop.                                                 *)
(***************************************************************************)
Init ==
    InitFTCS \/ InitImplicit \/ InitWave \/ InitBallistic \/ InitDerivative

Next ==
    NextFTCS \/ NextImplicit \/ NextWave \/ NextBallistic \/ NextDerivative

Spec == Init /\ [][Next]_vars

(***************************************************************************)
(* Properties of the wave loop.                                            *)
(***************************************************************************)
WaveInteriorPts == 1 .. xnum_wave - 2

\* fac1 and fac2 at grid point j, from the notebook's formula
\* fac1 = g*H[j]*(dt/dx)^2, fac2 = g*dt^2/(4*dx^2)
PointFac1(j) ==
    QDiv(QMul(QMul(grv, bathy_a[j]), QMul(deltat_sec, deltat_sec)),
         QMul(deltax, deltax))

PointFac2 ==
    QDiv(QMul(grv, QMul(deltat_sec, deltat_sec)),
         QMul(Q(4, 1), QMul(deltax, deltax)))

\* the Laplacian term and the bathymetry-gradient cross term of u at j
PointLaplace(u, j) ==
    QAdd(QSub(u[j + 1], QMul(Two, u[j])), u[j - 1])

PointCross(u, j) ==
    QMul(QSub(bathy_a[j + 1], bathy_a[j - 1]), QSub(u[j + 1], u[j - 1]))

\* the whole spatial increment the general step adds at j
PointIncrement(u, j) ==
    QAdd(QMul(PointFac1(j), PointLaplace(u, j)),
         QMul(PointFac2, PointCross(u, j)))

\* C2: the first step (tt = 0) gives every interior point j
\* u1[j] = u0[j] + (1/2)*(fac1[j]*sp_term1[j] + fac2*sp_term2[j]): half of
\* the whole spatial increment of the general step.
C2_WaveFirstStepHalf ==
    tt >= 1 =>
        \A j \in WaveInteriorPts :
            hist[2][j] =
                QAdd(hist[1][j], QMul(Half, PointIncrement(hist[1], j)))

\* C6: every wave step tt >= 1 sets each interior point j to
\* -u_pp[j] + 2*u_p[j] + fac1[j]*(u_p[j+1]-2*u_p[j]+u_p[j-1])
\*   + fac2*(H[j+1]-H[j-1])*(u_p[j+1]-u_p[j-1]),
\* u_p and u_pp being the whole fields at the end of steps tt-1 and tt-2;
\* uu_old and uu_old_2 hold exactly those fields.
C6_WaveTwoLevel ==
    tt >= 2 =>
        LET u_p == hist[Len(hist) - 1]
            u_pp == hist[Len(hist) - 2]
        IN  /\ uu_old = u_p
            /\ uu_old_2 = u_pp
            /\ \A j \in WaveInteriorPts :
                uu_cur[j] =
                    QAdd(QAdd(QNeg(u_pp[j]), QMul(Two, u_p[j])),
                         PointIncrement(u_p, j))

C6_Witness ==
    /\ tt = nsteps
    /\ hist[Len(hist) - 1] # hist[Len(hist) - 2]
    /\ hist[Len(hist) - 1][0] # hist[Len(hist) - 2][0]
    /\ \E j \in WaveInteriorPts : PointCross(hist[Len(hist) - 1], j) # Zero
    /\ \E j \in WaveInteriorPts : PointLaplace(hist[Len(hist) - 1], j) # Zero

\* C9: after every wave step, the first included, the first field value
\* equals the value at index 2 and the last equals the value at index N-3,
\* these being the values the interior update of that step produced.
C9_WaveBoundary ==
    \A k \in 2 .. Len(hist) :
        /\ hist[k][0] = hist[k][2]
        /\ hist[k][xnum_wave - 1] = hist[k][xnum_wave - 3]
        /\ k = Len(hist) => uu_cur = hist[k]

C9_Witness ==
    /\ tt = nsteps
    /\ uu_cur[2] # PrevField[2]
    /\ uu_cur[xnum_wave - 3] # PrevField[xnum_wave - 3]
    /\ uu_cur[0] # PrevField[0]
    /\ hist[2][2] # uu_0[2]

\* C19: the NaN placeholders of uu_old and uu_old_2 never reach the
\* solution: no value of uu_cur is NaN at any step; after the iteration
\* tt == 0 uu_old_2 still holds the placeholder (unread), and from then on
\* uu_old and uu_old_2 hold the initial field or fields computed earlier.
C19_WaveNoPlaceholder ==
    /\ \A k \in 1 .. Len(hist) : \A j \in 0 .. xnum_wave - 1 :
           ~IsNaN(hist[k][j])
    /\ uu_cur = hist[Len(hist)]
    /\ tt = 0 => uu_old = Ones(NaN, xnum_wave)
    /\ tt <= 1 => uu_old_2 = Ones(NaN, xnum_wave)
    /\ tt >= 1 => uu_old = hist[tt]
    /\ tt >= 2 => uu_old_2 = hist[tt - 1]

C19_Witness ==
    /\ notebook = "wave"
    /\ tt = 1
    /\ uu_old_2 = Ones(NaN, xnum_wave)
    /\ uu_old = uu_0
    /\ \E j \in WaveInteriorPts : uu_cur[j] # uu_0[j]

(***************************************************************************)
(* Properties of the loops of all notebooks.                               *)
(***************************************************************************)
\* the notebooks with a snapshot buffer
SnapshotNotebooks == {"ftcs", "implicit", "wave"}

\* len(ttplot) of the running notebook
NumPlot == IF notebook = "wave" THEN NumPlotWave ELSE NumPlotDiffusion

\* a row of to_plot no step has written
BlankRow == Ones(Zero, IF notebook = "wave" THEN xnum_wave ELSE xnum)

\* every written row k holds the field as it stood at the end of step
\* ttplot[k], which has run
RowsAreSnapshots ==
    notebook \in SnapshotNotebooks =>
        \A k \in 0 .. NumPlot - 1 :
            \/ to_plot[k] = BlankRow
            \/ /\ ttplot(NumPlot)[k] < tt
               /\ to_plot[k] = hist[ttplot(NumPlot)[k] + 2]

\* a step changes row k only if it is step ttplot[k], and then to the field
\* at the end of that step
RowWrittenAtItsStep ==
    notebook \in SnapshotNotebooks =>
        \A k \in 0 .. NumPlot - 1 :
            to_plot'[k] # to_plot[k] =>
                /\ ttplot(NumPlot)[k] = tt
                /\ to_plot'[k] = uu_cur'

\* C17: in the FTCS, implicit and wave loops every row k of to_plot is
\* written at most once, at step tt = ttplot[k], with a copy of the field
\* at the end of that step; no later step changes a written row, and no
\* row is written at a step that is not in ttplot.
C17_SnapshotWriteOnce == []RowsAreSnapshots /\ [][RowWrittenAtItsStep]_vars

C17_Witness ==
    /\ notebook \in SnapshotNotebooks
    /\ tt = nsteps
    /\ \E t \in 0 .. nsteps - 1 : ~InPlot(t, NumPlot)
    /\ to_plot[0] = hist[2]
    /\ to_plot[0] # uu_cur
    /\ to_plot[0] # BlankRow
    /\ to_plot[NumPlot - 1] = uu_cur

\* iterations of the running notebook's loop not yet run
IterationsLeft ==
    IF notebook = "ballistic" THEN nsteps_ballistic - 1 - kk ELSE nsteps - tt

\* iterations run so far are counted, each has left one field, and the
\* next iteration can run exactly while iterations are left (each loop
\* action is its LoopRuns condition and assignments that are always
\* defined)
LoopRunsToEnd ==
    /\ IterationsLeft >= 0
    /\ notebook \in SnapshotNotebooks => Len(hist) = tt + 1
    /\ IterationsLeft > 0 <=>
           \/ FtcsLoopRuns
           \/ ImplicitLoopRuns
           \/ WaveLoopRuns
           \/ BallisticLoopRuns

\* a step is the next iteration, none skipped or repeated
OneIteration ==
    /\ notebook \in SnapshotNotebooks =>
           /\ tt' = tt + 1
           /\ hist' = Append(hist, uu_cur')
    /\ notebook = "ballistic" => kk' = kk + 1

\* C18: every time loop runs a number of iterations fixed before it
\* starts, exactly nsteps in the FTCS, implicit and wave loops, whatever
\* the parameters and the field values: while iterations are left the
\* next one runs (no exit, no abort), every step is the next iteration,
\* and none runs after the last.
C18_FixedIterations ==
    /\ [](notebook # "derivative" => LoopRunsToEnd)
    /\ [][notebook # "derivative" => OneIteration]_vars

C18_Witness ==
    /\ notebook = "ftcs"
    /\ tt = nsteps
    /\ IterationsLeft = 0
    /\ Len(hist) = nsteps + 1
    /\ QLt(Half, alpha)
    /\ QLt(FtcsBoundM, VMaxAbs(uu_cur))

\* the num entries of tp are pairwise distinct step indices of a loop of
\* ns steps, the last one the final step
ScheduleFillsRows(tp, num, ns) ==
    /\ \A k \in 0 .. num - 1 : tp[k] \in 0 .. ns - 1
    /\ \A k \in 0 .. num - 1 : \A m \in 0 .. num - 1 :
           k # m => tp[k] # tp[m]
    /\ tp[num - 1] = ns - 1

\* C22: for the values each notebook fixes, the entries of ttplot are
\* pairwise distinct step indices within 0 .. nsteps-1 and the last is
\* nsteps-1; with such a schedule, when the loop ends every row k of
\* to_plot holds the field saved at step ttplot[k], so that no row is left
\* at its initial zeros (a row is all zero only if the saved field was).
C22_EveryRowFilled ==
    /\ ScheduleFillsRows(TtplotOf(NstepsDiffusion, SnapshotsDiffusion),
                         SnapshotsDiffusion, NstepsDiffusion)
    /\ ScheduleFillsRows(TtplotOf(NstepsWave, SnapshotsWave),
                         SnapshotsWave, NstepsWave)
    /\ ( /\ notebook \in SnapshotNotebooks
         /\ tt = nsteps
         /\ ScheduleFillsRows(ttplot(NumPlot), NumPlot, nsteps) ) =>
           \A k \in 0 .. NumPlot - 1 :
               to_plot[k] = hist[ttplot(NumPlot)[k] + 2]

C22_Witness ==
    /\ notebook = "wave"
    /\ tt = nsteps
    /\ ScheduleFillsRows(ttplot(NumPlot), NumPlot, nsteps)
    /\ TtplotOf(NstepsWave, SnapshotsWave)[0] = 18
    /\ TtplotOf(NstepsDiffusion, SnapshotsDiffusion)[1] = 611
    /\ \A k \in 0 .. NumPlot - 1 : to_plot[k] # BlankRow
    /\ to_plot[0] # to_plot[NumPlot - 1]

====
